---- MODULE Spec2Model ----
(***************************************************************************)
(* md-to-docx-cli: the interactive wizard (src/ui/Wizard.tsx) and the      *)
(* conversion session (src/ui/App.tsx: convert, the debounced file watcher *)
(* and the unmount cleanup).                                               *)
(*                                                                         *)
(* The specifications share the variables:                                 *)
(*   WizardSpec  the wizard's state {step, inputPath, flags} under every   *)
(*               input event ink delivers to it;                           *)
(*   AppSpec     one mounted App: its convert invocations (async, one      *)
(*               action per await), the watcher, the debounce timer;       *)
(*   StyleSpec   convert's style sanitizer on the contents of a style file;*)
(*   MergeSpec   convert's layering of the style sources;                  *)
(*   TocSpec     convert's [TOC] insertion on a markdown text;             *)
(*   LoadSpec    one conversion with the two JSON files fixed on disk;     *)
(*   PathSpec    convert's computation of the output path.                 *)
(***************************************************************************)
EXTENDS Integers, Sequences, FiniteSets, TLC

VARIABLES
    step,        \* Wizard: useState<Step>
    inputPath,   \* Wizard: useState(initialInputPath ?? "")
    flags,       \* Wizard/App: the Flags value
    lastEvent,   \* history: the last input event the wizard handled
    typeArg,     \* history: the --type value the user gave on the command line
    inv,         \* App: the convert invocations, by id
    nInv,        \* App: number of convert invocations started
    busy,        \* App: useState(false)
    status,      \* App: useState<string|null>, as a tuple of tokens
    error,       \* App: useState<string|null>, as the kind of message
    lastRes,     \* history: how the convert invocation that settled last ended
    fileWatcherRef,   \* App: useRef, 0 = null, else the watcher's id
    debounceTimerRef, \* App: useRef, 0 = null, else the timer's id
    watchers,    \* environment: the active fs watchers (ids)
    nWatchers,   \* environment: watchers created so far
    timers,      \* environment: the pending timeouts [id, left]
    nChanges,    \* history: change notifications delivered
    nBursts,     \* history: notifications that found no timer pending
    nCancelled,  \* history: timers cancelled by the cleanup
    sinceChange, \* history: ticks since the last notification (capped)
    outFile,     \* environment: the artifact, as the id of the invocation that
                 \* wrote it last (0: no artifact)
    mounted,     \* App: "new", "mounted", or "unmounted" (cleanup has run)
    rcStyle,        \* convert: rc?.style, None when falsy
    styleFromFile,  \* convert: styleFromFile, None when falsy
    mergedRaw,      \* convert: mergedRaw, None until it is computed
    optionsStyle,   \* convert: options.style, None when undefined
    markdown,       \* convert: the text the TOC insertion is applied to
    tocSource,      \* history: the text the first insertion was given
    tocRuns,        \* history: number of insertions applied so far
    rcOnDisk,       \* environment: what .mdtodocxrc.json holds
    styleOnDisk,    \* environment: what the file named by --style holds
    outIsDir,       \* environment: flags.output is an existing directory
    outPath,        \* convert: outPath, None until it is computed
    pathPc          \* convert: how far the output path computation is

wvars == <<step, inputPath, flags, lastEvent>>
avars == <<typeArg, inv, nInv, busy, status, error, lastRes, fileWatcherRef,
           debounceTimerRef, watchers, nWatchers, timers, nChanges, nBursts,
           nCancelled, sinceChange, outFile, mounted>>
dvars == <<rcOnDisk, styleOnDisk>>
ovars == <<outIsDir, outPath, pathPc>>
pvars == <<rcStyle, styleFromFile, mergedRaw, optionsStyle, markdown,
           tocSource, tocRuns, dvars, ovars>>
vars == <<wvars, avars, pvars>>

----------------------------------------------------------------------------
(* Bounds *)
MaxText == 1        \* characters held by the two free-text steps together
MaxInv == 3         \* convert invocations per session
MaxChanges == 2     \* change notifications per session
DebounceTicks == 2  \* the 200 ms debounce delay, in clock ticks
MaxEntries == 2     \* entries of the config style block and the style file
MaxMd == 6          \* characters of a markdown text
MaxTocRuns == 2     \* [TOC] insertions applied in a row
MaxPath == 6        \* characters of the input path and --output together

----------------------------------------------------------------------------
(* Values *)
Undef == "undefined"
None == <<>>                 \* an absent optional string
Some(s) == <<s>>             \* a present string s (a sequence of characters)

Max(a, b) == IF a > b THEN a ELSE b
Min(a, b) == IF a < b THEN a ELSE b

stepOrder == <<"welcome", "pickType", "toc", "rtl", "align", "style",
               "output", "watch", "verbose", "open", "confirm", "run">>

Steps == {stepOrder[i] : i \in 1..Len(stepOrder)}

indexOf(s) == CHOOSE i \in 1..Len(stepOrder) : stepOrder[i] = s

\* String.prototype.toLowerCase on one character
toLowerCase(ch) ==
    CASE ch = "B" -> "b"
      [] ch = "C" -> "c"
      [] ch = "Q" -> "q"
      [] ch = "R" -> "r"
      [] OTHER -> ch

\* the user action a character key stands for (README, Wizard shortcuts)
keyAction(ch) ==
    CASE toLowerCase(ch) = "b" -> "back"
      [] toLowerCase(ch) \in {"c", "q"} -> "cancel"
      [] toLowerCase(ch) = "r" -> "r"
      [] OTHER -> "char"

\* the characters a key press can carry
KeyChars == {"b", "c", "R", "x"}

\* the files the file picker can return
Paths == {"a.md"}

\* meow's flag table: what cli.flags holds for the given arguments
CliFlags(type, watch, open, output, style) ==
    [output |-> output,
     type |-> IF type = Undef THEN "document" ELSE type,
     toc |-> FALSE,
     rtl |-> FALSE,
     align |-> Undef,
     style |-> style,
     open |-> open,
     watch |-> watch,
     verbose |-> FALSE,
     compact |-> FALSE]

----------------------------------------------------------------------------
(* Wizard *)

\* setFlag(key, value)
setFlag(f, key, value) == [f EXCEPT ![key] = value]

\* goPrev: stepOrder[Math.max(0, idx - 1)]
goPrevStep(s) == stepOrder[Max(1, indexOf(s) - 1)]

\* the step each selection step advances to, and the flag it records
SelectSteps == {"pickType", "toc", "rtl", "align", "watch", "verbose", "open"}

\* selectNext with the align step wired past the style step
selectNextSkipStyle(s) ==
    CASE s = "pickType" -> "toc"
      [] s = "toc" -> "rtl"
      [] s = "rtl" -> "align"
      [] s = "align" -> "output"
      [] s = "watch" -> "verbose"
      [] s = "verbose" -> "open"
      [] s = "open" -> "confirm"

selectNext(s) ==
    CASE s = "pickType" -> "toc"
      [] s = "toc" -> "rtl"
      [] s = "rtl" -> "align"
      [] s = "align" -> "style"
      [] s = "watch" -> "verbose"
      [] s = "verbose" -> "open"
      [] s = "open" -> "confirm"

selectKey(s) == IF s = "pickType" THEN "type" ELSE s

itemsType == {"document", "report"}
itemsYesNo == {TRUE, FALSE}
itemsAlign == {"LEFT", "RIGHT", "CENTER", "JUSTIFIED", Undef}

selectItems(s) ==
    CASE s = "pickType" -> itemsType
      [] s = "align" -> itemsAlign
      [] OTHER -> itemsYesNo

\* the free-text steps, the flag each edits and the step Enter advances to
TextSteps == {"style", "output"}
submitNext(s) ==
    CASE s = "style" -> "output"
      [] s = "output" -> "watch"
      [] s = "confirm" -> "run"

\* <TextInput value={flags.x ?? ""}>
textValue(f, key) == IF f[key] = None THEN <<>> ELSE f[key][1]
\* onChange without the "|| undefined": the text is stored as it is
textOnChangeRaw(f, key, v) == setFlag(f, key, Some(v))
\* onChange={(v) => setFlag(key, v || undefined)}
textOnChange(f, key, v) == setFlag(f, key, IF v = <<>> THEN None ELSE Some(v))

\* shortcutStep without the step === "confirm" test of the run shortcut
shortcutStepAnyRun(s, ch, escape) ==
    IF escape \/ toLowerCase(ch) = "b" THEN goPrevStep(s)
    ELSE IF toLowerCase(ch) = "c" \/ toLowerCase(ch) = "q" THEN "welcome"
    ELSE IF toLowerCase(ch) = "r" THEN "run"
    ELSE s

\* the useInput handler of the wizard: the step after (input, key)
shortcutStep(s, ch, escape) ==
    IF escape \/ toLowerCase(ch) = "b" THEN goPrevStep(s)
    ELSE IF toLowerCase(ch) = "c" \/ toLowerCase(ch) = "q" THEN "welcome"
    ELSE IF toLowerCase(ch) = "r" /\ s = "confirm" THEN "run"
    ELSE s

\* FilePicker onSubmit at welcome
PickFile(p) ==
    /\ step = "welcome"
    /\ inputPath' = p
    /\ step' = "pickType"
    /\ lastEvent' = "pick"
    /\ UNCHANGED <<flags, avars, pvars>>

\* withNav onSelect with a value item
SelectItem ==
    /\ step \in SelectSteps
    /\ \E v \in selectItems(step) :
           flags' = setFlag(flags, selectKey(step), v)
    /\ step' = selectNext(step)
    /\ lastEvent' = "select"
    /\ UNCHANGED <<inputPath, avars, pvars>>

\* withNav onSelect with the Back item
NavBackItem ==
    /\ step \in SelectSteps
    /\ step' = goPrevStep(step)
    /\ lastEvent' = "back"
    /\ UNCHANGED <<inputPath, flags, avars, pvars>>

\* withNav onSelect with the Cancel item
NavCancelItem ==
    /\ step \in SelectSteps
    /\ step' = "welcome"
    /\ lastEvent' = "cancel"
    /\ UNCHANGED <<inputPath, flags, avars, pvars>>

\* a character key: the mounted TextInput (if any) inserts it, and the
\* wizard's useInput handler sees the same key
KeyChar(ch) ==
    /\ IF step \in TextSteps
       THEN /\ Len(textValue(flags, "style"))
                   + Len(textValue(flags, "output")) < MaxText
            /\ flags' = textOnChange(flags, step,
                                     Append(textValue(flags, step), ch))
       ELSE flags' = flags
    /\ step' = shortcutStep(step, ch, FALSE)
    /\ lastEvent' = keyAction(ch)
    /\ UNCHANGED <<inputPath, avars, pvars>>

\* the Esc key: no TextInput reacts, useInput goes back
KeyEscape ==
    /\ step' = shortcutStep(step, "", TRUE)
    /\ lastEvent' = "back"
    /\ UNCHANGED <<inputPath, flags, avars, pvars>>

\* Backspace in a free-text step: TextInput drops the last character
KeyBackspace ==
    /\ step \in TextSteps
    /\ textValue(flags, step) # <<>>
    /\ flags' = textOnChange(flags, step,
                   SubSeq(textValue(flags, step), 1,
                          Len(textValue(flags, step)) - 1))
    /\ lastEvent' = "backspace"
    /\ UNCHANGED <<step, inputPath, avars, pvars>>

\* Enter in a TextInput: onSubmit
KeySubmit ==
    /\ step \in TextSteps \cup {"confirm"}
    /\ step' = submitNext(step)
    /\ lastEvent' = "submit"
    /\ UNCHANGED <<inputPath, flags, avars, pvars>>

\* the configuration files are not looked at
DiskIdle == rcOnDisk = "absent" /\ styleOnDisk = "absent"

\* the output path is not computed
PathIdle == outIsDir = FALSE /\ outPath = None /\ pathPc = "idle"

\* the option preparation has not run
PrepIdle ==
    /\ rcStyle = None
    /\ styleFromFile = None
    /\ mergedRaw = None
    /\ optionsStyle = None
    /\ markdown = <<>>
    /\ tocSource = <<>>
    /\ tocRuns = 0
    /\ DiskIdle
    /\ PathIdle

IdleInv == [pc |-> "idle", src |-> "none", phases |-> <<>>,
            docType |-> Undef, rcDoc |-> Undef]

AppIdle ==
    /\ typeArg = Undef
    /\ inv = [i \in 1..MaxInv |-> IdleInv]
    /\ nInv = 0
    /\ busy = FALSE
    /\ status = <<>>
    /\ error = "null"
    /\ lastRes = "none"
    /\ fileWatcherRef = 0
    /\ debounceTimerRef = 0
    /\ watchers = {}
    /\ nWatchers = 0
    /\ timers = {}
    /\ nChanges = 0
    /\ nBursts = 0
    /\ nCancelled = 0
    /\ sinceChange = DebounceTicks
    /\ outFile = 0
    /\ mounted = "new"

WizardInit ==
    /\ step = "welcome"
    /\ inputPath \in {""} \cup Paths
    /\ flags = CliFlags(Undef, FALSE, FALSE, None, None)
    /\ lastEvent = "init"
    /\ AppIdle
    /\ PrepIdle

WizardNext ==
    \/ \E p \in Paths : PickFile(p)
    \/ SelectItem
    \/ NavBackItem
    \/ NavCancelItem
    \/ \E ch \in KeyChars : KeyChar(ch)
    \/ KeyEscape
    \/ KeyBackspace
    \/ KeySubmit

WizardSpec == WizardInit /\ [][WizardNext]_vars

----------------------------------------------------------------------------
(* App: the conversion session *)

PhaseOrder == <<"validate", "read", "prepare", "convert", "resolve", "write">>

\* what .mdtodocxrc.json can hold: no file, invalid JSON, {} or
\* {"documentType": "report"}
RcFiles == {"absent", "malformed", "empty", "report"}

\* rc?.documentType
rcDocumentType(file) == IF file = "report" THEN "report" ELSE Undef

\* options.documentType: flags.type ?? rc?.documentType ?? "document"
documentType(f, rcDoc) ==
    IF f.type # Undef THEN f.type
    ELSE IF rcDoc # Undef THEN rcDoc
    ELSE "document"

\* a listener that forgets to clear the pending timeout
clearTimeoutNoop(ts, id) == ts

\* clearTimeout(id) on the set of pending timeouts
clearTimeout(ts, id) == {t \in ts : t.id # id}

\* the installation test without !fileWatcherRef.current
shouldInstallWatcherNoRef(f, ref) == f.watch

\* if (flags.watch && !fileWatcherRef.current)
shouldInstallWatcher(f, ref) == f.watch /\ ref = 0

timerVars == <<timers, nChanges, nBursts, nCancelled, sinceChange,
               debounceTimerRef>>
watcherVars == <<fileWatcherRef, watchers, nWatchers>>
fixedVars == <<wvars, typeArg, pvars>>

\* a settled invocation: its locals are gone
DoneInv == [IdleInv EXCEPT !.pc = "done"]

\* convert(inPath) up to its first await: setBusy(true); setError(null);
\* setStatus("Validating input path..."); tryStat(inPath)
startConvert(src) ==
    /\ nInv < MaxInv
    /\ nInv' = nInv + 1
    /\ inv' = [inv EXCEPT ![nInv + 1] =
                  [IdleInv EXCEPT !.pc = "stat", !.src = src,
                                  !.phases = <<"validate">>]]
    /\ busy' = TRUE
    /\ error' = "null"
    /\ status' = <<"Validating">>

\* a catch block that is not followed by setBusy(false)
failKeepsBusy(i) ==
    /\ inv' = [inv EXCEPT ![i] = DoneInv]
    /\ error' = "message"
    /\ busy' = busy
    /\ lastRes' = "fatal"
    /\ UNCHANGED <<status, nInv, outFile, mounted, timerVars, watcherVars,
                   fixedVars>>

\* catch (e) { setError(e.message) } finally { setBusy(false) }
fail(i) ==
    /\ inv' = [inv EXCEPT ![i] = DoneInv]
    /\ error' = "message"
    /\ busy' = FALSE
    /\ lastRes' = "fatal"
    /\ UNCHANGED <<status, nInv, outFile, mounted, timerVars, watcherVars,
                   fixedVars>>

\* the watcher installation and the finally block that end a successful run;
\* st is the status the run has set so far
installWatcher(i, st) ==
    /\ IF shouldInstallWatcher(flags, fileWatcherRef)
       THEN \E ok \in BOOLEAN :
              IF ok
              THEN /\ fileWatcherRef' = nWatchers + 1
                   /\ watchers' = watchers \cup {nWatchers + 1}
                   /\ nWatchers' = nWatchers + 1
                   /\ status' = Append(st, "Watching")
                   /\ error' = error
                   /\ lastRes' = "ok"
              ELSE /\ status' = <<>>
                   /\ error' = "watcher"
                   /\ lastRes' = "watchFailed"
                   /\ UNCHANGED watcherVars
       ELSE /\ status' = st
            /\ error' = error
            /\ lastRes' = "ok"
            /\ UNCHANGED watcherVars
    /\ busy' = FALSE
    /\ inv' = [inv EXCEPT ![i] = DoneInv]

\* useEffect(() => { if (inputPath) void convert(inputPath); ... }, [])
Mount ==
    /\ mounted = "new"
    /\ mounted' = "mounted"
    /\ inputPath # ""
    /\ startConvert("mount")
    /\ UNCHANGED <<lastRes, outFile, timerVars, watcherVars, fixedVars>>

\* await tryStat(inPath) settles
StatDone(i) ==
    /\ inv[i].pc = "stat"
    /\ \E isFile \in BOOLEAN :
         IF ~isFile
         THEN fail(i)
         ELSE /\ inv' = [inv EXCEPT ![i].pc = "read",
                                    ![i].phases = Append(@, "read")]
              /\ status' = <<"Reading">>
              /\ UNCHANGED <<nInv, busy, error, lastRes, outFile, mounted,
                             timerVars, watcherVars, fixedVars>>

\* await readFile(inPath) settles
ReadDone(i) ==
    /\ inv[i].pc = "read"
    /\ \E ok \in BOOLEAN :
         IF ~ok
         THEN fail(i)
         ELSE /\ inv' = [inv EXCEPT ![i].pc = "rc",
                                    ![i].phases = Append(@, "prepare")]
              /\ status' = <<"Preparing">>
              /\ UNCHANGED <<nInv, busy, error, lastRes, outFile, mounted,
                             timerVars, watcherVars, fixedVars>>

\* a loadJsonIfExists that treats every failure as a missing file
loadJsonIfExistsLenient(filePath, file) ==
    IF filePath = None THEN "undefined"
    ELSE IF file \in {"absent", "malformed"} THEN "undefined"
    ELSE "value"

\* loadJsonIfExists(filePath), given what the file holds: undefined without
\* a path and on ENOENT, a throw when JSON.parse fails, else the value
loadJsonIfExists(filePath, file) ==
    IF filePath = None THEN "undefined"
    ELSE IF file = "absent" THEN "undefined"
    ELSE IF file = "malformed" THEN "throw"
    ELSE "value"

\* const rc = await loadJsonIfExists(".mdtodocxrc.json"), the file holding
\* file
RcLoaded(i, file) ==
    IF loadJsonIfExists(Some(<<"rc">>), file) = "throw"
    THEN fail(i)
    ELSE /\ inv' = [inv EXCEPT ![i].pc = "styleFile",
                               ![i].rcDoc = rcDocumentType(file)]
         /\ UNCHANGED <<nInv, busy, status, error, lastRes, outFile,
                        mounted, timerVars, watcherVars, fixedVars>>

\* await loadJsonIfExists(".mdtodocxrc.json") settles
RcDone(i) ==
    /\ inv[i].pc = "rc"
    /\ \E file \in RcFiles : RcLoaded(i, file)

\* what the file named by --style can hold: no file, invalid JSON, an object
StyleFiles == {"absent", "malformed", "object"}

\* const styleFromFile = await loadJsonIfExists(flags.style), the file
\* holding file; the options are built and the external converter is called
StyleLoaded(i, file) ==
    IF loadJsonIfExists(flags.style, file) = "throw"
    THEN fail(i)
    ELSE /\ inv' = [inv EXCEPT ![i].pc = "convert",
                               ![i].docType =
                                   documentType(flags, inv[i].rcDoc),
                               ![i].phases = Append(@, "convert")]
         /\ status' = <<"Converting">>
         /\ UNCHANGED <<nInv, busy, error, lastRes, outFile, mounted,
                        timerVars, watcherVars, fixedVars>>

\* await loadJsonIfExists(flags.style) settles
StyleDone(i) ==
    /\ inv[i].pc = "styleFile"
    /\ \E file \in StyleFiles : StyleLoaded(i, file)

\* ConvertDone that calls the external converter again when it fails
ConvertDoneRetry(i) ==
    /\ inv[i].pc = "convert"
    /\ \E ok \in BOOLEAN :
         /\ IF ~ok
            THEN /\ inv' = [inv EXCEPT ![i].phases = Append(@, "convert")]
                 /\ status' = status
            ELSE IF flags.output # None
                 THEN /\ inv' = [inv EXCEPT ![i].pc = "outStat",
                                    ![i].phases = Append(@, "resolve")]
                      /\ status' = status
                 ELSE /\ inv' = [inv EXCEPT ![i].pc = "arrayBuffer",
                                    ![i].phases = @ \o <<"resolve", "write">>]
                      /\ status' = <<"Writing">>
         /\ UNCHANGED <<nInv, busy, error, lastRes, outFile, mounted,
                        timerVars, watcherVars, fixedVars>>

\* await convertMarkdownToDocx(...) settles; resolveOutputPath runs and, with
\* an output flag, tryStat(flags.output) is awaited
ConvertDone(i) ==
    /\ inv[i].pc = "convert"
    /\ \E ok \in BOOLEAN :
         IF ~ok
         THEN fail(i)
         ELSE /\ IF flags.output # None
                 THEN /\ inv' = [inv EXCEPT ![i].pc = "outStat",
                                    ![i].phases = Append(@, "resolve")]
                      /\ status' = status
                 ELSE /\ inv' = [inv EXCEPT ![i].pc = "arrayBuffer",
                                    ![i].phases = @ \o <<"resolve", "write">>]
                      /\ status' = <<"Writing">>
              /\ UNCHANGED <<nInv, busy, error, lastRes, outFile, mounted,
                             timerVars, watcherVars, fixedVars>>

\* await tryStat(flags.output) settles (it never throws)
OutStatDone(i) ==
    /\ inv[i].pc = "outStat"
    /\ inv' = [inv EXCEPT ![i].pc = "arrayBuffer",
                          ![i].phases = Append(@, "write")]
    /\ status' = <<"Writing">>
    /\ UNCHANGED <<nInv, busy, error, lastRes, outFile, mounted, timerVars,
                   watcherVars, fixedVars>>

\* await blob.arrayBuffer() settles
ArrayBufferDone(i) ==
    /\ inv[i].pc = "arrayBuffer"
    /\ \E ok \in BOOLEAN :
         IF ~ok
         THEN fail(i)
         ELSE /\ inv' = [inv EXCEPT ![i].pc = "write"]
              /\ UNCHANGED <<nInv, busy, status, error, lastRes, outFile,
                             mounted, timerVars, watcherVars, fixedVars>>

\* WriteDone with the watcher installation moved to the finally block
WriteDoneWatchAlways(i) ==
    /\ inv[i].pc = "write"
    /\ \E ok \in BOOLEAN :
         IF ~ok
         THEN /\ installWatcher(i, status)
              /\ UNCHANGED <<nInv, outFile, mounted, timerVars, fixedVars>>
         ELSE /\ outFile' = i
              /\ IF flags.open
                 THEN /\ inv' = [inv EXCEPT ![i].pc = "open"]
                      /\ status' = <<"Opening">>
                      /\ UNCHANGED <<busy, error, lastRes, watcherVars>>
                 ELSE installWatcher(i, <<"Done">>)
              /\ UNCHANGED <<nInv, mounted, timerVars, fixedVars>>

\* await writeFile(outPath, ...) settles; setStatus("Done: ..."), then the
\* open action is awaited or the watcher is installed
WriteDone(i) ==
    /\ inv[i].pc = "write"
    /\ \E ok \in BOOLEAN :
         IF ~ok
         THEN fail(i)
         ELSE /\ outFile' = i
              /\ IF flags.open
                 THEN /\ inv' = [inv EXCEPT ![i].pc = "open"]
                      /\ status' = <<"Opening">>
                      /\ UNCHANGED <<busy, error, lastRes, watcherVars>>
                 ELSE installWatcher(i, <<"Done">>)
              /\ UNCHANGED <<nInv, mounted, timerVars, fixedVars>>

\* await openFile(outPath) settles
OpenDone(i) ==
    /\ inv[i].pc = "open"
    /\ \E ok \in BOOLEAN :
         IF ~ok
         THEN /\ inv' = [inv EXCEPT ![i] = DoneInv]
              /\ error' = "message"
              /\ busy' = FALSE
              /\ lastRes' = "openFailed"
              /\ UNCHANGED <<status, watcherVars>>
         ELSE installWatcher(i, status)
    /\ UNCHANGED <<nInv, outFile, mounted, timerVars, fixedVars>>

\* the fs.watch listener: a change notification for the input file (a
\* timeout that is due runs first: Node runs due timers before it polls for
\* file events)
Change ==
    /\ watchers # {}
    /\ nChanges < MaxChanges
    /\ timers # {} \/ nInv < MaxInv
    /\ \A t \in timers : t.left > 0
    /\ timers' = clearTimeout(timers, debounceTimerRef)
                    \cup {[id |-> nChanges + 1, left |-> DebounceTicks]}
    /\ debounceTimerRef' = nChanges + 1
    /\ nChanges' = nChanges + 1
    /\ nBursts' = nBursts + (IF timers = {} THEN 1 ELSE 0)
    /\ sinceChange' = 0
    /\ UNCHANGED <<inv, nInv, busy, status, error, lastRes, outFile, mounted,
                   nCancelled, watcherVars, fixedVars>>

\* one tick of time passes; an expired timeout runs before time goes on
Tick ==
    /\ \A t \in timers : t.left > 0
    /\ timers # {} \/ sinceChange < DebounceTicks
    /\ timers' = {[t EXCEPT !.left = @ - 1] : t \in timers}
    /\ sinceChange' = Min(sinceChange + 1, DebounceTicks)
    /\ UNCHANGED <<inv, nInv, busy, status, error, lastRes, outFile, mounted,
                   nChanges, nBursts, nCancelled, debounceTimerRef,
                   watcherVars, fixedVars>>

\* the debounce timeout runs: void convert(inPath)
TimerFire ==
    /\ \E t \in timers :
         /\ t.left = 0
         /\ timers' = timers \ {t}
    /\ startConvert("watch")
    /\ UNCHANGED <<lastRes, outFile, mounted, nChanges, nBursts, nCancelled,
                   sinceChange, debounceTimerRef, watcherVars, fixedVars>>

\* a cleanup that closes the watcher and leaves the debounce timer alone
CleanupWatcherOnly ==
    /\ mounted = "mounted"
    /\ mounted' = "unmounted"
    /\ watchers' = watchers \ {fileWatcherRef}
    /\ fileWatcherRef' = 0
    /\ UNCHANGED <<inv, nInv, busy, status, error, lastRes, outFile,
                   nWatchers, timerVars, fixedVars>>

\* the useEffect cleanup (the App is unmounted)
Cleanup ==
    /\ mounted = "mounted"
    /\ mounted' = "unmounted"
    /\ watchers' = watchers \ {fileWatcherRef}
    /\ fileWatcherRef' = 0
    /\ timers' = clearTimeout(timers, debounceTimerRef)
    /\ nCancelled' = nCancelled + Cardinality(timers)
                        - Cardinality(clearTimeout(timers, debounceTimerRef))
    /\ debounceTimerRef' = 0
    /\ UNCHANGED <<inv, nInv, busy, status, error, lastRes, outFile,
                   nWatchers, nChanges, nBursts, sinceChange, fixedVars>>

AppInit ==
    /\ step = "run"
    /\ inputPath \in Paths
    /\ lastEvent = "init"
    /\ typeArg \in {Undef, "document", "report"}
    /\ \E w \in BOOLEAN, o \in BOOLEAN, out \in {None, Some(<<"o">>)},
          st \in {None, Some(<<"s">>)} :
         flags = CliFlags(typeArg, w, o, out, st)
    /\ inv = [i \in 1..MaxInv |-> IdleInv]
    /\ nInv = 0
    /\ busy = FALSE
    /\ status = <<>>
    /\ error = "null"
    /\ lastRes = "none"
    /\ fileWatcherRef = 0
    /\ debounceTimerRef = 0
    /\ watchers = {}
    /\ nWatchers = 0
    /\ timers = {}
    /\ nChanges = 0
    /\ nBursts = 0
    /\ nCancelled = 0
    /\ sinceChange = DebounceTicks
    /\ outFile = 0
    /\ mounted = "new"
    /\ PrepIdle

AppNext ==
    \/ Mount
    \/ \E i \in 1..MaxInv : StatDone(i)
    \/ \E i \in 1..MaxInv : ReadDone(i)
    \/ \E i \in 1..MaxInv : RcDone(i)
    \/ \E i \in 1..MaxInv : StyleDone(i)
    \/ \E i \in 1..MaxInv : ConvertDone(i)
    \/ \E i \in 1..MaxInv : OutStatDone(i)
    \/ \E i \in 1..MaxInv : ArrayBufferDone(i)
    \/ \E i \in 1..MaxInv : WriteDone(i)
    \/ \E i \in 1..MaxInv : OpenDone(i)
    \/ Change
    \/ Tick
    \/ TimerFire
    \/ Cleanup

AppSpec == AppInit /\ [][AppNext]_vars

----------------------------------------------------------------------------
(* convert: one conversion with the configuration files as they are on disk *)

\* await loadJsonIfExists(".mdtodocxrc.json") settles on the file on disk
RcRead(i) ==
    /\ inv[i].pc = "rc"
    /\ RcLoaded(i, rcOnDisk)

\* await loadJsonIfExists(flags.style) settles on the file on disk
StyleRead(i) ==
    /\ inv[i].pc = "styleFile"
    /\ StyleLoaded(i, styleOnDisk)

LoadInit ==
    /\ step = "run"
    /\ inputPath \in Paths
    /\ lastEvent = "init"
    /\ \E w \in BOOLEAN, o \in BOOLEAN, out \in {None, Some(<<"o">>)},
          st \in {None, Some(<<"s">>)} :
         flags = CliFlags(Undef, w, o, out, st)
    /\ AppIdle
    /\ rcStyle = None
    /\ styleFromFile = None
    /\ mergedRaw = None
    /\ optionsStyle = None
    /\ markdown = <<>>
    /\ tocSource = <<>>
    /\ tocRuns = 0
    /\ rcOnDisk \in RcFiles
    /\ styleOnDisk \in StyleFiles
    /\ PathIdle

LoadNext ==
    \/ Mount
    \/ \E i \in 1..MaxInv : StatDone(i)
    \/ \E i \in 1..MaxInv : ReadDone(i)
    \/ \E i \in 1..MaxInv : RcRead(i)
    \/ \E i \in 1..MaxInv : StyleRead(i)
    \/ \E i \in 1..MaxInv : ConvertDone(i)
    \/ \E i \in 1..MaxInv : OutStatDone(i)
    \/ \E i \in 1..MaxInv : ArrayBufferDone(i)
    \/ \E i \in 1..MaxInv : WriteDone(i)
    \/ \E i \in 1..MaxInv : OpenDone(i)

LoadSpec == LoadInit /\ [][LoadNext]_vars

----------------------------------------------------------------------------
(* convert: the style option *)

\* JSON values: numbers are held in hundredths (1.15 is 115), strings as
\* sequences of characters
Num(n) == [t |-> "number", n |-> n, s |-> <<>>, b |-> FALSE]
NaN == [t |-> "NaN", n |-> 0, s |-> <<>>, b |-> FALSE]
Infinity == [t |-> "Infinity", n |-> 0, s |-> <<>>, b |-> FALSE]
Str(s) == [t |-> "string", n |-> 0, s |-> s, b |-> FALSE]
Bool(b) == [t |-> "boolean", n |-> 0, s |-> <<>>, b |-> b]
Null == [t |-> "null", n |-> 0, s |-> <<>>, b |-> FALSE]

\* typeof value
typeof(v) ==
    CASE v.t \in {"number", "NaN", "Infinity"} -> "number"
      [] v.t = "string" -> "string"
      [] v.t = "boolean" -> "boolean"
      [] OTHER -> "object"

\* Number.isFinite(value): no coercion, false for everything but a finite
\* number
isFinite(v) == v.t = "number"

Digits == {"0", "1", "2", "3", "4", "5", "6", "7", "8", "9"}

digitOf(ch) ==
    CASE ch = "0" -> 0 [] ch = "1" -> 1 [] ch = "2" -> 2 [] ch = "3" -> 3
      [] ch = "4" -> 4 [] ch = "5" -> 5 [] ch = "6" -> 6 [] ch = "7" -> 7
      [] ch = "8" -> 8 [] ch = "9" -> 9

RECURSIVE decimal(_)
decimal(s) ==
    IF s = <<>> THEN 0
    ELSE 10 * decimal(SubSeq(s, 1, Len(s) - 1)) + digitOf(s[Len(s)])

RECURSIVE trimStart(_)
trimStart(s) ==
    IF s # <<>> /\ Head(s) = " " THEN trimStart(Tail(s)) ELSE s

RECURSIVE trimEnd(_)
trimEnd(s) ==
    IF s # <<>> /\ s[Len(s)] = " "
    THEN trimEnd(SubSeq(s, 1, Len(s) - 1))
    ELSE s

InfinityChars == <<"I", "n", "f", "i", "n", "i", "t", "y">>

\* Number(value) on a string of digits, spaces and letters: white space is
\* trimmed, the empty string is 0, a digit string is its decimal value,
\* "Infinity" is Infinity, anything else is NaN
Number(s) ==
    LET t == trimEnd(trimStart(s)) IN
    IF t = <<>> THEN Num(0)
    ELSE IF \A i \in 1..Len(t) : t[i] \in Digits THEN Num(100 * decimal(t))
    ELSE IF t = InfinityChars THEN Infinity
    ELSE NaN

numericStyleKeys ==
    {"titleSize", "headingSpacing", "paragraphSpacing", "lineSpacing",
     "heading1Size", "heading2Size", "heading3Size", "heading4Size",
     "heading5Size", "paragraphSize", "listItemSize", "codeBlockSize",
     "blockquoteSize", "tocFontSize", "tocHeading1FontSize",
     "tocHeading2FontSize", "tocHeading3FontSize", "tocHeading4FontSize",
     "tocHeading5FontSize"}

booleanStyleKeys ==
    {"tocHeading1Bold", "tocHeading2Bold", "tocHeading3Bold",
     "tocHeading4Bold", "tocHeading5Bold", "tocHeading1Italic",
     "tocHeading2Italic", "tocHeading3Italic", "tocHeading4Italic",
     "tocHeading5Italic"}

stringStyleKeys ==
    {"paragraphAlignment", "headingAlignment", "heading1Alignment",
     "heading2Alignment", "heading3Alignment", "heading4Alignment",
     "heading5Alignment", "blockquoteAlignment", "direction"}

\* the characters of an --align value
chars(a) ==
    CASE a = "LEFT" -> <<"L", "E", "F", "T">>
      [] a = "RIGHT" -> <<"R", "I", "G", "H", "T">>
      [] a = "CENTER" -> <<"C", "E", "N", "T", "E", "R">>
      [] a = "JUSTIFIED" -> <<"J", "U", "S", "T", "I", "F", "I", "E", "D">>

\* userWantsCustomStyle without the Boolean(flags.align) operand
userWantsCustomStyleNoAlign(f, rcS, fileS) ==
    rcS # None \/ fileS # None \/ f.rtl

\* Boolean(rc?.style) || Boolean(styleFromFile) || Boolean(flags.align) ||
\* Boolean(flags.rtl)
userWantsCustomStyle(f, rcS, fileS) ==
    rcS # None \/ fileS # None \/ f.align # Undef \/ f.rtl

defaultNumericStyle(wants) ==
    IF wants
    THEN [titleSize |-> Num(3200),
          headingSpacing |-> Num(24000),
          paragraphSpacing |-> Num(24000),
          lineSpacing |-> Num(115),
          heading1Size |-> Num(3200),
          heading2Size |-> Num(2800),
          heading3Size |-> Num(2400),
          heading4Size |-> Num(2000),
          heading5Size |-> Num(1800),
          paragraphSize |-> Num(2400),
          listItemSize |-> Num(2400),
          codeBlockSize |-> Num(2000),
          blockquoteSize |-> Num(2400),
          tocFontSize |-> Num(2200)]
    ELSE <<>>

\* {...a, ...b}
spread(a, b) ==
    [k \in DOMAIN a \cup DOMAIN b |-> IF k \in DOMAIN b THEN b[k] ELSE a[k]]

\* x || {} on an optional object
orEmpty(x) == IF x = None THEN <<>> ELSE x[1]

\* ...(flags.align ? { paragraphAlignment: flags.align } : {})
alignStyle(f) ==
    IF f.align # Undef THEN [paragraphAlignment |-> Str(chars(f.align))]
    ELSE <<>>

\* ...(flags.rtl ? { direction: "RTL" } : {})
rtlStyle(f) ==
    IF f.rtl THEN [direction |-> Str(<<"R", "T", "L">>)] ELSE <<>>

\* a merge that spreads the config style block after the style file
mergeStyleRcLast(f, rcS, fileS) ==
    spread(spread(spread(spread(
        defaultNumericStyle(userWantsCustomStyle(f, rcS, fileS)),
        orEmpty(fileS)), orEmpty(rcS)), alignStyle(f)), rtlStyle(f))

\* mergedRaw
mergeStyle(f, rcS, fileS) ==
    spread(spread(spread(spread(
        defaultNumericStyle(userWantsCustomStyle(f, rcS, fileS)),
        orEmpty(rcS)), orEmpty(fileS)), alignStyle(f)), rtlStyle(f))

\* the number a numeric key's value stands for
toNum(value) == IF typeof(value) = "string" THEN Number(value.s) ELSE value

\* a filter whose last line returns true
keepEntryAnyKey(key, value) ==
    IF key \in numericStyleKeys THEN isFinite(toNum(value))
    ELSE IF key \in booleanStyleKeys THEN typeof(value) = "boolean"
    ELSE IF key \in stringStyleKeys
         THEN typeof(value) = "string" /\ Len(value.s) > 0
    ELSE TRUE

\* the filter of sanitizedStyleEntries
keepEntry(key, value) ==
    IF key \in numericStyleKeys THEN isFinite(toNum(value))
    ELSE IF key \in booleanStyleKeys THEN typeof(value) = "boolean"
    ELSE IF key \in stringStyleKeys
         THEN typeof(value) = "string" /\ Len(value.s) > 0
    ELSE FALSE

\* sanitizedStyle: the entries kept, numeric keys mapped to their number
sanitizedStyle(m) ==
    [k \in {x \in DOMAIN m : keepEntry(x, m[x])} |->
        IF k \in numericStyleKeys THEN toNum(m[k]) ELSE m[k]]

\* options.style with sanitizedStyle passed on whatever it holds
styleOptionAlways(wants, sanitized) == Some(sanitized)

\* options.style: userWantsCustomStyle && Object.keys(sanitizedStyle).length
\*                    ? sanitizedStyle : undefined
styleOption(wants, sanitized) ==
    IF wants /\ Cardinality(DOMAIN sanitized) # 0 THEN Some(sanitized)
    ELSE None

\* convert, from the style sources to options.style
PrepareStyle ==
    /\ mergedRaw = None
    /\ mergedRaw' = Some(mergeStyle(flags, rcStyle, styleFromFile))
    /\ optionsStyle' =
           styleOption(userWantsCustomStyle(flags, rcStyle, styleFromFile),
                       sanitizedStyle(mergeStyle(flags, rcStyle,
                                                 styleFromFile)))
    /\ UNCHANGED <<wvars, avars, rcStyle, styleFromFile, markdown,
                   tocSource, tocRuns, dvars, ovars>>

\* the objects over the given keys and values with at most n entries
Objects(keys, values, n) ==
    UNION {[d -> values] : d \in {x \in SUBSET keys : Cardinality(x) <= n}}

\* the keys and values a style file is given: a numeric key with and one
\* without a default, a boolean key, a string key, a key outside the schema
FileKeys == {"titleSize", "tocHeading1FontSize", "tocHeading1Bold",
             "headingAlignment", "color"}
FileValues ==
    {Num(2400), Infinity, Bool(TRUE), Null,
     Str(<<"2", "4">>), Str(<<>>), Str(<<" ">>), Str(<<"p", "t">>),
     Str(<<"N", "a", "N">>), Str(InfinityChars),
     Str(<<"t", "r", "u", "e">>)}

\* --style names a JSON file holding an object; no config file, no flags
StyleInit ==
    /\ step = "run"
    /\ inputPath \in Paths
    /\ flags = CliFlags(Undef, FALSE, FALSE, None, Some(<<"s">>))
    /\ lastEvent = "init"
    /\ AppIdle
    /\ rcStyle = None
    /\ styleFromFile \in {Some(m) : m \in Objects(FileKeys, FileValues,
                                                  MaxEntries)}
    /\ mergedRaw = None
    /\ optionsStyle = None
    /\ markdown = <<>>
    /\ tocSource = <<>>
    /\ tocRuns = 0
    /\ DiskIdle
    /\ PathIdle

StyleNext == PrepareStyle

StyleSpec == StyleInit /\ [][StyleNext]_vars

\* the keys and values the layered sources are given
MergeKeys == {"titleSize", "paragraphAlignment", "direction", "color"}
MergeValues == {Num(2400), Str(<<"L", "E", "F", "T">>), Null}

\* a style file that sets every key of the built-in defaults to null
NullDefaults == [k \in DOMAIN defaultNumericStyle(TRUE) |-> Null]

\* every combination of a config style block, a style file, --align and
\* --rtl, and the style file NullDefaults on its own and with the flags
MergeInit ==
    /\ step = "run"
    /\ inputPath \in Paths
    /\ AppIdle
    /\ lastEvent = "init"
    /\ rcStyle \in {None} \cup
           {Some(m) : m \in Objects(MergeKeys, MergeValues, MaxEntries)}
    /\ styleFromFile \in {None, Some(NullDefaults)} \cup
           {Some(m) : m \in Objects(MergeKeys, MergeValues, MaxEntries)}
    /\ \/ Cardinality(DOMAIN orEmpty(rcStyle))
              + Cardinality(DOMAIN orEmpty(styleFromFile)) <= MaxEntries
       \/ rcStyle = None /\ styleFromFile = Some(NullDefaults)
    /\ \E a \in {Undef, "CENTER", "RIGHT"}, r \in BOOLEAN :
           flags = [CliFlags(Undef, FALSE, FALSE, None,
                             IF styleFromFile = None THEN None
                             ELSE Some(<<"s">>))
                       EXCEPT !.align = a, !.rtl = r]
    /\ mergedRaw = None
    /\ optionsStyle = None
    /\ markdown = <<>>
    /\ tocSource = <<>>
    /\ tocRuns = 0
    /\ DiskIdle
    /\ PathIdle

MergeNext == PrepareStyle

MergeSpec == MergeInit /\ [][MergeNext]_vars

----------------------------------------------------------------------------
(* convert: the [TOC] insertion *)

TocMarker == <<"[", "T", "O", "C", "]">>

\* a search that looks for the marker at the start of the text only
includesAtStart(t, sub) ==
    Len(t) >= Len(sub) /\ SubSeq(t, 1, Len(sub)) = sub

\* String.prototype.includes
includes(t, sub) ==
    \E i \in 1..(Len(t) - Len(sub) + 1) : SubSeq(t, i, i + Len(sub) - 1) = sub

\* an insertion that does not look for the marker
effectiveMarkdownNoLookup(f, md) ==
    IF f.toc THEN <<"\n">> \o TocMarker \o <<"\n", "\n">> \o md ELSE md

\* flags.toc && !markdown.includes("[TOC]") ? `\n[TOC]\n\n${markdown}`
\*                                           : markdown
effectiveMarkdown(f, md) ==
    IF f.toc /\ ~includes(md, TocMarker)
    THEN <<"\n">> \o TocMarker \o <<"\n", "\n">> \o md
    ELSE md

\* the characters of a markdown text, and the texts of a given length
MdChars == {"[", "T", "O", "C", "]"}
Texts(n) == UNION {[1..k -> MdChars] : k \in 0..n}

\* one insertion, applied to the text the previous one produced
InsertToc ==
    /\ tocRuns < MaxTocRuns
    /\ markdown' = effectiveMarkdown(flags, markdown)
    /\ tocRuns' = tocRuns + 1
    /\ UNCHANGED <<wvars, avars, rcStyle, styleFromFile, mergedRaw,
                   optionsStyle, tocSource, dvars, ovars>>

TocInit ==
    /\ step = "run"
    /\ inputPath \in Paths
    /\ \E toc \in BOOLEAN :
           flags = [CliFlags(Undef, FALSE, FALSE, None, None)
                       EXCEPT !.toc = toc]
    /\ lastEvent = "init"
    /\ AppIdle
    /\ rcStyle = None
    /\ styleFromFile = None
    /\ mergedRaw = None
    /\ optionsStyle = None
    /\ markdown \in Texts(MaxMd)
    /\ tocSource = markdown
    /\ tocRuns = 0
    /\ DiskIdle
    /\ PathIdle

TocNext == InsertToc

TocSpec == TocInit /\ [][TocNext]_vars

----------------------------------------------------------------------------
(* convert: the output path (node:path, POSIX flavour; a path is a sequence *)
(* of characters)                                                          *)

sep == "/"

\* String.prototype.endsWith(path.sep)
endsWithSep(p) == p # <<>> /\ p[Len(p)] = sep

isAbsolute(p) == p # <<>> /\ p[1] = sep

\* path.parse: the last character of the base (trailing separators are
\* skipped, the root is not looked at), 0 when there is no base
baseEnd(p) ==
    LET from == IF isAbsolute(p) THEN 2 ELSE 1
        idx == {i \in from..Len(p) : p[i] # sep}
    IN IF idx = {} THEN 0 ELSE CHOOSE i \in idx : \A j \in idx : j <= i

\* path.parse: the separator in front of the base, 0 when the base starts
\* the path or follows the root
baseSep(p) ==
    LET from == IF isAbsolute(p) THEN 2 ELSE 1
        idx == {i \in from..baseEnd(p) : p[i] = sep}
    IN IF idx = {} THEN 0 ELSE CHOOSE i \in idx : \A j \in idx : j <= i

baseStart(p) ==
    IF baseSep(p) # 0 THEN baseSep(p) + 1
    ELSE IF isAbsolute(p) THEN 2 ELSE 1

\* path.parse(p).base
parseBase(p) ==
    IF baseEnd(p) = 0 THEN <<>> ELSE SubSeq(p, baseStart(p), baseEnd(p))

\* path.parse(p).dir
parseDir(p) ==
    IF baseEnd(p) # 0 /\ baseSep(p) # 0 THEN SubSeq(p, 1, baseSep(p) - 1)
    ELSE IF isAbsolute(p) THEN <<sep>>
    ELSE <<>>

\* path.parse(p).name: the base without its extension; the extension starts
\* at the last dot of the base, unless that dot starts the base or the base
\* is ".."
parseName(p) ==
    LET base == parseBase(p)
        dots == {i \in 1..Len(base) : base[i] = "."}
        dot == IF dots = {} THEN 0
               ELSE CHOOSE i \in dots : \A j \in dots : j <= i
    IN IF dot = 0 \/ dot = 1 \/ base = <<".", ".">> THEN base
       ELSE SubSeq(base, 1, dot - 1)

\* String.prototype.split(sep)
RECURSIVE split(_)
split(p) ==
    IF \A i \in 1..Len(p) : p[i] # sep THEN <<p>>
    ELSE LET i == CHOOSE k \in 1..Len(p) :
                      p[k] = sep /\ \A j \in 1..(k - 1) : p[j] # sep
         IN <<SubSeq(p, 1, i - 1)>> \o split(SubSeq(p, i + 1, Len(p)))

\* normalizeString: empty and "." segments are dropped, ".." removes the
\* segment before it or, in a relative path, is kept when there is none
RECURSIVE normalizeString(_, _, _)
normalizeString(segs, res, allowAboveRoot) ==
    IF segs = <<>> THEN res
    ELSE IF Head(segs) = <<>> \/ Head(segs) = <<".">>
    THEN normalizeString(Tail(segs), res, allowAboveRoot)
    ELSE IF Head(segs) = <<".", ".">>
    THEN IF res # <<>> /\ res[Len(res)] # <<".", ".">>
         THEN normalizeString(Tail(segs), SubSeq(res, 1, Len(res) - 1),
                              allowAboveRoot)
         ELSE IF allowAboveRoot
         THEN normalizeString(Tail(segs), Append(res, Head(segs)),
                              allowAboveRoot)
         ELSE normalizeString(Tail(segs), res, allowAboveRoot)
    ELSE normalizeString(Tail(segs), Append(res, Head(segs)), allowAboveRoot)

\* Array.prototype.join(sep)
RECURSIVE joinSegs(_)
joinSegs(segs) ==
    IF segs = <<>> THEN <<>>
    ELSE IF Len(segs) = 1 THEN segs[1]
    ELSE segs[1] \o <<sep>> \o joinSegs(Tail(segs))

\* path.normalize
normalize(p) ==
    LET body == joinSegs(normalizeString(split(p), <<>>, ~isAbsolute(p)))
    IN IF p = <<>> THEN <<".">>
       ELSE IF body = <<>>
       THEN IF isAbsolute(p) THEN <<sep>>
            ELSE IF endsWithSep(p) THEN <<".", sep>> ELSE <<".">>
       ELSE (IF isAbsolute(p) THEN <<sep>> ELSE <<>>) \o body
                \o (IF endsWithSep(p) THEN <<sep>> ELSE <<>>)

\* path.join(a, b)
join(a, b) ==
    IF a = <<>> /\ b = <<>> THEN <<".">>
    ELSE IF a = <<>> THEN normalize(b)
    ELSE IF b = <<>> THEN normalize(a)
    ELSE normalize(a \o <<sep>> \o b)

\* `${name}.docx`
docxName(inPath) == parseName(inPath) \o <<".", "d", "o", "c", "x">>

\* resolveOutputPath(inPath, desired); desired is None or Some(text), and the
\* empty text is falsy
resolveOutputPath(inPath, desired) ==
    IF desired = None \/ desired = Some(<<>>)
    THEN join(parseDir(inPath), docxName(inPath))
    ELSE IF endsWithSep(desired[1])
    THEN join(desired[1], docxName(inPath))
    ELSE desired[1]

\* let outPath = resolveOutputPath(inPath, flags.output); if (flags.output)
\* tryStat(flags.output) is awaited
ResolvePath ==
    /\ pathPc = "start"
    /\ outPath' = Some(resolveOutputPath(inputPath, flags.output))
    /\ pathPc' = IF flags.output = None \/ flags.output = Some(<<>>)
                 THEN "done" ELSE "stat"
    /\ UNCHANGED <<wvars, avars, rcStyle, styleFromFile, mergedRaw,
                   optionsStyle, markdown, tocSource, tocRuns, dvars,
                   outIsDir>>

\* a stat result that is not looked at
PathStatDoneNoOverride ==
    /\ pathPc = "stat"
    /\ pathPc' = "done"
    /\ UNCHANGED <<wvars, avars, rcStyle, styleFromFile, mergedRaw,
                   optionsStyle, markdown, tocSource, tocRuns, dvars,
                   outIsDir, outPath>>

\* await tryStat(flags.output) settles: if (outStat?.isDirectory())
\* outPath = path.join(flags.output, `${name}.docx`)
PathStatDone ==
    /\ pathPc = "stat"
    /\ pathPc' = "done"
    /\ outPath' = IF outIsDir
                  THEN Some(join(flags.output[1], docxName(inputPath)))
                  ELSE outPath
    /\ UNCHANGED <<wvars, avars, rcStyle, styleFromFile, mergedRaw,
                   optionsStyle, markdown, tocSource, tocRuns, dvars,
                   outIsDir>>

\* the characters of a path, and the paths of at most n characters
PathChars == {sep, ".", "a"}
PathTexts(n) == UNION {[1..k -> PathChars] : k \in 0..n}

\* an input path that names a file: it has a base, which is not "." or "..",
\* and no trailing separator
isFilePath(p) ==
    /\ p # <<>>
    /\ ~endsWithSep(p)
    /\ parseBase(p) \notin {<<".">>, <<".", ".">>}

PathInit ==
    /\ step = "run"
    /\ inputPath \in {p \in PathTexts(MaxPath) : isFilePath(p)}
    /\ lastEvent = "init"
    /\ \E out \in {None} \cup {Some(p) : p \in PathTexts(MaxPath)} :
         /\ flags = CliFlags(Undef, FALSE, FALSE, out, None)
         /\ Len(inputPath) + Len(textValue(flags, "output")) <= MaxPath
         /\ outIsDir \in IF out = None \/ out = Some(<<>>)
                         THEN {FALSE} ELSE BOOLEAN
    /\ AppIdle
    /\ rcStyle = None
    /\ styleFromFile = None
    /\ mergedRaw = None
    /\ optionsStyle = None
    /\ markdown = <<>>
    /\ tocSource = <<>>
    /\ tocRuns = 0
    /\ DiskIdle
    /\ outPath = None
    /\ pathPc = "start"

PathNext ==
    \/ ResolvePath
    \/ PathStatDone

PathSpec == PathInit /\ [][PathNext]_vars

----------------------------------------------------------------------------
(* What the App renders *)

inFlight(i) == inv[i].pc \notin {"idle", "done"}

\* {busy && <WORKING status>}
ShowsWorking == busy
\* {!busy && status && !error && <DONE|INFO status>}
ShowsInfo == ~busy /\ status # <<>> /\ error = "null"
\* {error && <ERROR error>}
ShowsError == error # "null"

IsPrefix(s, t) == Len(s) <= Len(t) /\ SubSeq(t, 1, Len(s)) = s

\* reconversions dispatched by the debounce timeout
nDispatched == IF nInv = 0 THEN 0 ELSE nInv - 1

----------------------------------------------------------------------------
(* Claims *)

\* C1: the step is always one of the twelve enumerated steps; every change of
\* step moves to the step just after or just before the current one in
\* stepOrder, or is a cancel to welcome; run is entered only from confirm, and
\* the r key leaves the step alone in every step other than confirm.
C1_StepsAdjacent ==
    /\ [](step \in Steps)
    /\ [][/\ step' # step =>
               \/ indexOf(step') = indexOf(step) + 1
               \/ indexOf(step') = indexOf(step) - 1
               \/ step' = "welcome" /\ lastEvent' = "cancel"
          /\ (step' = "run" /\ step # "run") => step = "confirm"
          /\ (lastEvent' = "r" /\ step # "confirm") => step' = step]_vars

\* C1 witness: run was entered from confirm by the r shortcut.
C1_Witness == step = "run" /\ lastEvent = "r"

\* C2: once the step is run, no wizard action changes it.
C2_RunIsTerminal == [][step = "run" => step' = "run"]_vars

\* C3: at most one watcher-initiated convert invocation is in flight.
C3_NoOverlap ==
    Cardinality({i \in 1..MaxInv : inFlight(i) /\ inv[i].src = "watch"}) <= 1

\* C4: with open and watch requested, when the open action has failed after
\* the artifact was written, the file watcher is installed all the same.
C4_OpenFailureStillWatches ==
    (/\ lastRes = "openFailed"
     /\ flags.open /\ flags.watch
     /\ mounted = "mounted"
     /\ outFile # 0)
    => watchers # {}

\* C5: the document type given to the converter is the type the user supplied,
\* else the config file's documentType, else "document".
C5_DocumentType ==
    \A i \in 1..MaxInv :
        inv[i].docType # Undef =>
            inv[i].docType =
                IF typeArg # Undef THEN typeArg
                ELSE IF inv[i].rcDoc # Undef THEN inv[i].rcDoc
                ELSE "document"

\* C6: the phases of one invocation run in the order of PhaseOrder, each at
\* most once; an invocation that has settled (a failed phase settles it at
\* once) runs no further phase; the artifact is written only by an invocation
\* whose six phases have all started and none has failed.
C6_PhasesInOrder ==
    /\ [](\A i \in 1..MaxInv : IsPrefix(inv[i].phases, PhaseOrder))
    /\ [][/\ \A i \in 1..MaxInv :
               /\ inv[i].pc = "done" => inv'[i] = inv[i]
               /\ (inFlight(i) /\ inv'[i].pc # "done") =>
                      IsPrefix(inv[i].phases, inv'[i].phases)
               /\ (inFlight(i) /\ inv'[i].pc = "done" /\ lastRes' = "fatal") =>
                      outFile' = outFile
          /\ outFile' # outFile =>
               /\ outFile' \in 1..MaxInv
               /\ inv[outFile'].pc = "write"
               /\ inv[outFile'].phases = PhaseOrder
               /\ inv'[outFile'].pc \in {"open", "done"}]_vars

\* C6 witness: the external converter has failed and nothing was written.
C6_Witness ==
    /\ lastRes = "fatal"
    /\ status = <<"Converting">>
    /\ inv[1].pc = "done"
    /\ outFile = 0

\* C7: at most one debounce timeout is pending; every burst (the
\* notifications from one that finds no timeout pending up to the next such
\* one) dispatches exactly one reconversion unless the cleanup cancels it; a
\* notification that arrives before the delay since the previous one has
\* elapsed finds that timeout pending; and a reconversion is dispatched only
\* when the full delay has passed since the last notification.
C7_Debounce ==
    /\ [](/\ Cardinality(timers) <= 1
          /\ nDispatched + Cardinality(timers) + nCancelled = nBursts
          /\ nCancelled = 0 =>
               /\ \A t \in timers : t.left = DebounceTicks - sinceChange
               /\ timers = {} => sinceChange = DebounceTicks)
    /\ [][(nInv' > nInv /\ nInv >= 1) => sinceChange = DebounceTicks]_vars

\* C7 witness: a burst of two notifications has dispatched one reconversion.
C7_Witness ==
    /\ nChanges = 2
    /\ nBursts = 1
    /\ nInv = 2
    /\ timers = {}
    /\ nCancelled = 0

\* C8: at most one file watcher is active per App instance.
C8_OneWatcher == Cardinality(watchers) <= 1

\* C8 witness: a second invocation has finished its post-actions while the
\* watcher of the first was active.
C8_Witness ==
    /\ nInv >= 2
    /\ inv[2].pc = "done"
    /\ lastRes = "ok"
    /\ outFile = 2
    /\ mounted = "mounted"
    /\ Cardinality(watchers) = 1

\* C9: after a non-fatal failure (open action or watcher installation) the
\* session shows the warning together with the outcome of the conversion (the
\* status text that names the written path), and the artifact is there.
C9_NonFatalKeepsResult ==
    (/\ lastRes \in {"openFailed", "watchFailed"}
     /\ mounted = "mounted"
     /\ \A i \in 1..MaxInv : ~inFlight(i))
    => /\ ShowsError
       /\ ShowsWorking \/ ShowsInfo
       /\ status # <<>> /\ status[1] \in {"Done", "Opening"}
       /\ outFile # 0

\* C10: a cancel action sets the step to welcome and leaves the flags and the
\* input path as they were.
C10_CancelKeepsFlags ==
    [][lastEvent' = "cancel" =>
          /\ step' = "welcome"
          /\ flags' = flags
          /\ inputPath' = inputPath]_vars

\* C11: a back action moves from every step other than welcome to the step
\* just before it in stepOrder and stays at welcome; in both cases the flags
\* and the input path are as they were.
C11_BackKeepsFlags ==
    [][lastEvent' = "back" =>
          /\ step' = IF step = "welcome" THEN "welcome"
                      ELSE stepOrder[indexOf(step) - 1]
          /\ flags' = flags
          /\ inputPath' = inputPath]_vars

\* C12: choosing a value item at a selection step sets the flag of that step
\* to the chosen value, leaves every other flag and the input path alone and
\* moves to the next step of stepOrder; a file chosen at welcome sets the
\* input path, leaves the flags alone and moves to pickType.
C12_SelectSetsOneFlag ==
    [][/\ lastEvent' = "select" =>
             /\ step \in {"pickType", "toc", "rtl", "align", "watch",
                           "verbose", "open"}
             /\ step' = stepOrder[indexOf(step) + 1]
             /\ \A k \in DOMAIN flags :
                    k # (IF step = "pickType" THEN "type" ELSE step)
                        => flags'[k] = flags[k]
             /\ flags'[IF step = "pickType" THEN "type" ELSE step]
                    \in selectItems(step)
             /\ DOMAIN flags' = DOMAIN flags
             /\ inputPath' = inputPath
       /\ lastEvent' = "pick" =>
             /\ step = "welcome"
             /\ step' = "pickType"
             /\ inputPath' \in Paths
             /\ flags' = flags]_vars

\* C12 witness: CENTER was chosen at the align step, which led to style.
C12_Witness ==
    lastEvent = "select" /\ step = "style" /\ flags.align = "CENTER"

C14_SanitizedIsTyped ==
    (mergedRaw # None /\ optionsStyle # None) =>
        \A k \in DOMAIN optionsStyle[1] :
            \/ /\ k \in numericStyleKeys
               /\ optionsStyle[1][k].t = "number"
            \/ /\ k \in booleanStyleKeys
               /\ optionsStyle[1][k].t = "boolean"
            \/ /\ k \in stringStyleKeys
               /\ optionsStyle[1][k].t = "string"
               /\ optionsStyle[1][k].s # <<>>

\* C14 witness: the style file held a key outside the schema and the string
\* "true" under a boolean key; a style was passed on without them.
C14_Witness ==
    /\ mergedRaw # None
    /\ optionsStyle # None
    /\ DOMAIN styleFromFile[1] = {"color", "tocHeading1Bold"}
    /\ styleFromFile[1]["tocHeading1Bold"] = Str(<<"t", "r", "u", "e">>)
    /\ DOMAIN optionsStyle[1] \cap {"color", "tocHeading1Bold"} = {}

\* C15: under a numeric key, a string that spells a finite number (a
\* non-empty digit string) gives the style passed on that number, and every
\* other string (letters, the empty string, white space only, "NaN",
\* "Infinity") leaves the key out of it.
C15_NumericStrings ==
    mergedRaw # None =>
        \A k \in DOMAIN mergedRaw[1] \cap numericStyleKeys :
            mergedRaw[1][k].t = "string" =>
                IF /\ mergedRaw[1][k].s # <<>>
                   /\ \A i \in 1..Len(mergedRaw[1][k].s) :
                          mergedRaw[1][k].s[i] \in Digits
                THEN /\ optionsStyle # None
                     /\ k \in DOMAIN optionsStyle[1]
                     /\ optionsStyle[1][k]
                            = Num(100 * decimal(mergedRaw[1][k].s))
                ELSE \/ optionsStyle = None
                     \/ k \notin DOMAIN optionsStyle[1]

\* C16: every key of the merged raw style holds the value of the
\* highest-precedence source that defines it, in the order built-in
\* defaults, config style block, style file, align and rtl flags; a set
\* align flag gives paragraphAlignment and a set rtl flag gives direction
\* "RTL", whatever the config block and the style file hold.
C16_Precedence ==
    mergedRaw # None =>
        /\ flags.rtl => "direction" \in DOMAIN mergedRaw[1]
        /\ flags.align # Undef => "paragraphAlignment" \in DOMAIN mergedRaw[1]
        /\ \A k \in DOMAIN mergedRaw[1] :
               mergedRaw[1][k] =
                   IF k = "direction" /\ flags.rtl
                   THEN Str(<<"R", "T", "L">>)
                   ELSE IF k = "paragraphAlignment" /\ flags.align # Undef
                   THEN Str(chars(flags.align))
                   ELSE IF styleFromFile # None
                           /\ k \in DOMAIN styleFromFile[1]
                   THEN styleFromFile[1][k]
                   ELSE IF rcStyle # None /\ k \in DOMAIN rcStyle[1]
                   THEN rcStyle[1][k]
                   ELSE defaultNumericStyle(TRUE)[k]

\* C16 witness: the config block and the style file give titleSize different
\* values, and the merge has run.
C16_Witness ==
    /\ mergedRaw # None
    /\ rcStyle # None
    /\ styleFromFile # None
    /\ "titleSize" \in DOMAIN rcStyle[1] \cap DOMAIN styleFromFile[1]
    /\ rcStyle[1]["titleSize"] # styleFromFile[1]["titleSize"]

\* C17: the style option passed to the converter is never an empty object,
\* it is undefined or has at least one entry; with no config style block, no
\* style file content, no align flag and no rtl flag it is undefined.
C17_StyleNeverEmpty ==
    mergedRaw # None =>
        /\ optionsStyle # None => DOMAIN optionsStyle[1] # {}
        /\ (rcStyle = None /\ styleFromFile = None
               /\ flags.align = Undef /\ ~flags.rtl) => optionsStyle = None

\* C17 witness: the style file sets every default to null and is the only
\* source, so that no entry is kept and the option is left undefined.
C17_Witness ==
    /\ mergedRaw # None
    /\ rcStyle = None
    /\ styleFromFile = Some(NullDefaults)
    /\ flags.align = Undef
    /\ ~flags.rtl
    /\ optionsStyle = None

\* C18: with an align flag and no other style source, the style passed to
\* the converter holds every built-in numeric default with its default
\* value, paragraphAlignment with the flag's value, and nothing else.
C18_AlignOnly ==
    (mergedRaw # None /\ flags.align # Undef /\ ~flags.rtl
        /\ rcStyle = None /\ styleFromFile = None) =>
        /\ optionsStyle # None
        /\ DOMAIN optionsStyle[1]
               = DOMAIN defaultNumericStyle(TRUE) \cup {"paragraphAlignment"}
        /\ \A k \in DOMAIN defaultNumericStyle(TRUE) :
               optionsStyle[1][k] = defaultNumericStyle(TRUE)[k]
        /\ optionsStyle[1]["paragraphAlignment"] = Str(chars(flags.align))

\* C18 witness: the options were prepared for --align CENTER alone.
C18_Witness ==
    /\ mergedRaw # None
    /\ flags.align = "CENTER"
    /\ ~flags.rtl
    /\ rcStyle = None
    /\ styleFromFile = None
    /\ optionsStyle # None

\* C19: the TOC insertion is idempotent: applied with the toc flag set to
\* the result of a previous insertion it gives that text back, so that the
\* marker is never duplicated.
C19_TocIdempotent ==
    [][(flags.toc /\ tocRuns >= 1) => markdown' = markdown]_vars

\* C19 witness: the insertion ran twice on a text that had no marker.
C19_Witness ==
    /\ flags.toc
    /\ tocRuns = 2
    /\ ~includes(tocSource, TocMarker)
    /\ Len(markdown) = Len(tocSource) + 8

\* C20: the text given to the converter is the source text prefixed with a
\* newline, the marker line [TOC] and a blank line exactly when the toc flag
\* is set and the source text does not contain the marker; in every other
\* case it is the source text itself.
C20_TocInsertion ==
    tocRuns = 1 =>
        IF /\ flags.toc
           /\ ~\E i \in 0..(Len(tocSource) - 5) :
                   /\ tocSource[i + 1] = "["
                   /\ tocSource[i + 2] = "T"
                   /\ tocSource[i + 3] = "O"
                   /\ tocSource[i + 4] = "C"
                   /\ tocSource[i + 5] = "]"
        THEN markdown
                = <<"\n", "[", "T", "O", "C", "]", "\n", "\n">> \o tocSource
        ELSE markdown = tocSource

\* C20 witness: the toc flag is set and the source holds the marker after
\* another character, so the text is passed on as it is.
C20_Witness ==
    /\ tocRuns = 1
    /\ flags.toc
    /\ Len(tocSource) = 6
    /\ SubSeq(tocSource, 2, 6) = TocMarker
    /\ markdown = tocSource

\* C26: at the free-text steps (style, output) a typed character, b, c, q
\* and r in either case included, changes only the flag being edited and
\* leaves the step alone; the step changes only on Enter or Esc.
C26_TypingKeepsStep ==
    [][(step = "style" \/ step = "output") =>
          /\ flags' # flags =>
                /\ step' = step
                /\ \A k \in DOMAIN flags \ {step} : flags'[k] = flags[k]
          /\ step' # step =>
                (lastEvent' = "submit"
                    \/ (lastEvent' = "back" /\ flags' = flags))]_vars

\* C27: whenever a config style block, a style file, the align flag or the
\* rtl flag is present, the style passed to the converter holds every key of
\* the built-in numeric defaults with a finite number, also when a source
\* gives such a key an invalid value.
C27_DefaultsSurvive ==
    (mergedRaw # None
        /\ (rcStyle # None \/ styleFromFile # None
              \/ flags.align # Undef \/ flags.rtl)) =>
        /\ optionsStyle # None
        /\ \A k \in {"titleSize", "headingSpacing", "paragraphSpacing",
                     "lineSpacing", "heading1Size", "heading2Size",
                     "heading3Size", "heading4Size", "heading5Size",
                     "paragraphSize", "listItemSize", "codeBlockSize",
                     "blockquoteSize", "tocFontSize"} :
               /\ k \in DOMAIN optionsStyle[1]
               /\ optionsStyle[1][k].t = "number"

\* C23: the session shows at most one of WORKING, DONE/INFO and ERROR at a
\* time: while an error message is displayed no busy status is displayed,
\* also when convert invocations overlap.
C23_OneStatusShown ==
    /\ ~(ShowsError /\ ShowsWorking)
    /\ ~(ShowsError /\ ShowsInfo)
    /\ ~(ShowsWorking /\ ShowsInfo)

\* C23 witness: an invocation failed while another one is still in flight,
\* and the error is displayed.
C23_Witness ==
    /\ ShowsError
    /\ lastRes = "fatal"
    /\ \E i \in 1..MaxInv : inFlight(i)

\* C25: once the cleanup has run, no file watcher of the session is active
\* and none is installed later, also when a convert invocation with watch
\* requested was in flight at the moment of the cleanup.
C25_NoWatcherAfterCleanup == mounted = "unmounted" => watchers = {}

\* C28: busy is true in every state in which some convert invocation has
\* started and not yet settled, overlapping invocations included.
C28_BusyWhileInFlight == (\E i \in 1..MaxInv : inFlight(i)) => busy

\* C29: a watcher exists only if an invocation of the session has written
\* its artifact: the invocation that installs it has completed its write and
\* did not fail, and while no artifact was written (the initial conversion
\* failed) no change notification arrives and no reconversion starts.
C29_WatcherAfterWrite ==
    /\ [](nWatchers > 0 => outFile # 0)
    /\ [](outFile = 0 => (nChanges = 0 /\ timers = {} /\ nInv <= 1))
    /\ [][nWatchers' > nWatchers =>
             \E i \in 1..MaxInv :
                 /\ inFlight(i)
                 /\ inv'[i].pc = "done"
                 /\ lastRes' = "ok"
                 /\ \/ inv[i].pc = "open"
                    \/ inv[i].pc = "write" /\ outFile' = i]_vars

\* C29 witness: watch was requested and the initial conversion failed; no
\* watcher exists.
C29_Witness ==
    /\ flags.watch
    /\ nInv = 1
    /\ inv[1].pc = "done"
    /\ lastRes = "fatal"
    /\ outFile = 0
    /\ watchers = {}

\* C24: the cleanup closes the watcher if one exists and cancels the pending
\* debounce timer if one exists, so that no timer set by an earlier
\* notification is left to start a reconversion; it raises no error; with no
\* watcher and no timer it changes nothing, and a second cleanup on the state
\* it leaves would change nothing either.
C24_CleanupStops ==
    [][(mounted = "mounted" /\ mounted' = "unmounted") =>
          /\ watchers' = {}
          /\ timers' = {}
          /\ fileWatcherRef' = 0
          /\ debounceTimerRef' = 0
          /\ nInv' = nInv
          /\ error' = error
          /\ (watchers = {} /\ timers = {}) =>
                 /\ watchers' = watchers
                 /\ timers' = timers
                 /\ <<inv, busy, status, lastRes, outFile>>'
                        = <<inv, busy, status, lastRes, outFile>>
          /\ watchers' \ {fileWatcherRef'} = watchers'
          /\ {t \in timers' : t.id # debounceTimerRef'} = timers']_vars

\* C24 witness: the cleanup has closed the session's watcher and cancelled a
\* pending debounce timer.
C24_Witness ==
    /\ mounted = "unmounted"
    /\ nWatchers = 1
    /\ watchers = {}
    /\ nCancelled = 1
    /\ timers = {}

\* C22: for the project config file and for the style file alike, a file
\* that does not exist lets the conversion go on without an error as if the
\* source were not given, and a file that exists but is not valid JSON makes
\* the invocation fail before the external converter is called, with nothing
\* written.
C22_MissingOrMalformedJson ==
    /\ []((rcOnDisk = "malformed"
             \/ (flags.style # None /\ styleOnDisk = "malformed")) =>
            /\ outFile = 0
            /\ \A i \in 1..MaxInv :
                   /\ inv[i].pc \notin {"convert", "outStat", "arrayBuffer",
                                        "write", "open"}
                   /\ inv[i].pc = "done" => (lastRes = "fatal"
                                               /\ error # "null"))
    /\ [][\A i \in 1..MaxInv :
            /\ (inv[i].pc = "rc" /\ inv'[i].pc # "rc"
                  /\ rcOnDisk = "absent") =>
                  /\ inv'[i].pc = "styleFile"
                  /\ inv'[i].rcDoc = Undef
                  /\ error' = "null"
            /\ (inv[i].pc = "styleFile" /\ inv'[i].pc # "styleFile"
                  /\ styleOnDisk = "absent") =>
                  /\ inv'[i].pc = "convert"
                  /\ error' = "null"]_vars

\* C22 witness: --style names a file that does not exist, there is no
\* config file either, and the artifact was written without an error.
C22_Witness ==
    /\ flags.style # None
    /\ styleOnDisk = "absent"
    /\ rcOnDisk = "absent"
    /\ outFile = 1
    /\ lastRes = "ok"
    /\ error = "null"

\* C21: the output path is, with no desired output, the input's directory
\* joined with the input's base name and .docx; with a desired output that
\* ends in the path separator or is an existing directory, that directory
\* joined with the input's base name and .docx; otherwise the desired output
\* as it was given.
C21_OutputPath ==
    pathPc = "done" =>
        outPath = Some(
            IF textValue(flags, "output") = <<>>
            THEN join(parseDir(inputPath),
                      parseName(inputPath) \o <<".", "d", "o", "c", "x">>)
            ELSE IF outIsDir
                    \/ flags.output[1][Len(flags.output[1])] = "/"
            THEN join(flags.output[1],
                      parseName(inputPath) \o <<".", "d", "o", "c", "x">>)
            ELSE flags.output[1])

\* C21 witness: --output names an existing directory without a trailing
\* separator, and the artifact goes into it under the input's base name.
C21_Witness ==
    /\ pathPc = "done"
    /\ inputPath = <<"a", "/", "a", ".", "a">>
    /\ flags.output = Some(<<"a">>)
    /\ outIsDir
    /\ outPath = Some(<<"a", "/", "a", ".", "d", "o", "c", "x">>)

====
